---------------------------- MODULE Spec2Model ----------------------------
(***************************************************************************)
(* Model of the Bible verse extraction scripts extract_bible_data.py (the  *)
(* WEB edition) and extract_darby.py (the Darby edition).                  *)
(*                                                                         *)
(* Text.  A Python string is modelled as a sequence of atoms.  An atom is  *)
(* a TLA+ string that stands for exactly the characters it spells, so the  *)
(* Python string of a sequence is the concatenation of its atoms.  The     *)
(* only exceptions are the four footnote glyphs, written by code point     *)
(* ("U+2020" is the dagger, "U+2021" the double dagger, "U+00A7" the       *)
(* section sign, "U+00B6" the pilcrow), and "\n", the line feed.           *)
(* The characters the regular expressions of the scripts look at ('<',     *)
(* '>', '&', ';', '[', ']', the glyphs, white space, digits) are atoms of  *)
(* their own, and no other atom contains one of them at a place where a    *)
(* pattern could start or end, so matching on atoms is matching on         *)
(* characters.                                                             *)
(***************************************************************************)
EXTENDS Integers, Sequences, FiniteSets, TLC

(***************************************************************************)
(* Bounds of the model.                                                    *)
(***************************************************************************)
MaxUnits == 2
MaxLen == 4
MaxFiles == 2

(***************************************************************************)
(* Generic helpers on sequences.                                           *)
(***************************************************************************)
Range(s) == {s[k] : k \in DOMAIN s}

SubSeqFrom(s, i) == SubSeq(s, i, Len(s))

\* p occurs in s starting at index i
StartsWithAt(s, i, p) ==
    /\ i >= 1
    /\ i + Len(p) - 1 <= Len(s)
    /\ \A k \in 1..Len(p) : s[i + k - 1] = p[k]

\* least index j >= from at which p occurs in s, 0 when there is none
FindFirst(s, from, p) ==
    LET hits == {j \in from..Len(s) : StartsWithAt(s, j, p)}
    IN  IF hits = {} THEN 0 ELSE CHOOSE j \in hits : \A k \in hits : j <= k

IsPrefix(s, t) == Len(s) <= Len(t) /\ SubSeq(t, 1, Len(s)) = s

RECURSIVE Flatten(_)
Flatten(ss) == IF ss = <<>> THEN <<>> ELSE Head(ss) \o Flatten(Tail(ss))

RECURSIVE SeqsUpTo(_, _)
SeqsUpTo(S, n) ==
    IF n = 0 THEN {<<>>}
    ELSE LET shorter == SeqsUpTo(S, n - 1)
         IN  shorter \cup {Append(s, x) : s \in {t \in shorter : Len(t) = n - 1}, x \in S}

(***************************************************************************)
(* Character classes and literal substrings of the patterns.               *)
(***************************************************************************)
Digits == {"0", "1", "2", "3", "4", "5", "6", "7", "8", "9"}

DigitVal == [d \in Digits |->
    CASE d = "0" -> 0 [] d = "1" -> 1 [] d = "2" -> 2 [] d = "3" -> 3
      [] d = "4" -> 4 [] d = "5" -> 5 [] d = "6" -> 6 [] d = "7" -> 7
      [] d = "8" -> 8 [] d = "9" -> 9]

\* \s of the whitespace pattern, for the whitespace atoms of the model
Whitespace == {" ", "\n"}

\* the character class of the footnote pattern
Glyphs == {"U+2020", "U+2021", "U+00A7", "U+00B6"}

EntityNames == {"#160", "nbsp", "lt", "gt", "amp", "quot", "apos"}

Entity(name) == <<"&", name, ";">>

PopupOpen == <<"<", "span class=\"popup\"", ">">>
SpanClose == <<"<", "/span", ">">>
DivClose == <<"<", "/div", ">">>
VerseOpen == <<"<", "span class=\"verse\"">>

\* int(): the value of a non-empty run of decimal digits
RECURSIVE int(_)
int(ds) ==
    IF ds = <<>> THEN 0
    ELSE 10 * int(SubSeq(ds, 1, Len(ds) - 1)) + DigitVal[ds[Len(ds)]]

\* str.replace(old, new): every non-overlapping occurrence, left to right
RECURSIVE ReplaceFrom(_, _, _, _)
ReplaceFrom(s, i, old, new) ==
    LET j == FindFirst(s, i, old)
    IN  IF j = 0 THEN SubSeqFrom(s, i)
        ELSE SubSeq(s, i, j - 1) \o new \o ReplaceFrom(s, j + Len(old), old, new)

replace(s, old, new) == ReplaceFrom(s, 1, old, new)

\* <[^>]+> matches at index p of s: a '<', at least one character that is
\* not '>', and then the first '>'
TagAt(s, p) ==
    /\ s[p] = "<"
    /\ p + 1 <= Len(s)
    /\ s[p + 1] # ">"
    /\ FindFirst(s, p + 2, <<">">>) # 0

\* re.sub(r'<[^>]+>', ' ', text)
RECURSIVE StripTagsFrom(_, _)
StripTagsFrom(s, i) ==
    LET tags == {p \in i..Len(s) : TagAt(s, p)}
        p == CHOOSE q \in tags : \A k \in tags : q <= k
    IN  IF tags = {} THEN SubSeqFrom(s, i)
        ELSE SubSeq(s, i, p - 1) \o <<" ">>
                 \o StripTagsFrom(s, FindFirst(s, p + 2, <<">">>) + 1)

\* the tags deleted instead, as test_extraction.py does: re.sub(r'<[^>]+>', '', text)
RECURSIVE DeleteTagsFrom(_, _)
DeleteTagsFrom(s, i) ==
    LET tags == {p \in i..Len(s) : TagAt(s, p)}
        p == CHOOSE q \in tags : \A k \in tags : q <= k
    IN  IF tags = {} THEN SubSeqFrom(s, i)
        ELSE SubSeq(s, i, p - 1) \o DeleteTagsFrom(s, FindFirst(s, p + 2, <<">">>) + 1)

StripTags_deleting(s) == DeleteTagsFrom(s, 1)

StripTags(s) == StripTagsFrom(s, 1)

\* the chain of text.replace calls that decodes the entities, in source order
DecodeEntities(t) ==
    LET t1 == replace(t, Entity("#160"), <<" ">>)
        t2 == replace(t1, Entity("nbsp"), <<" ">>)
        t3 == replace(t2, Entity("lt"), <<"<">>)
        t4 == replace(t3, Entity("gt"), <<">">>)
        t5 == replace(t4, Entity("amp"), <<"&">>)
        t6 == replace(t5, Entity("quot"), <<"\"">>)
    IN  replace(t6, Entity("apos"), <<"'">>)

\* the footnote pattern applied once only: re.sub(r'[glyphs]', '', text, count=1)
RemoveGlyphs_first(t) ==
    LET at == {j \in 1..Len(t) : t[j] \in Glyphs}
        j == CHOOSE a \in at : \A b \in at : a <= b
    IN  IF at = {} THEN t ELSE SubSeq(t, 1, j - 1) \o SubSeqFrom(t, j + 1)

\* re.sub(r'[glyphs]', '', text)
RemoveGlyphs(t) == SelectSeq(t, LAMBDA c : c \notin Glyphs)

\* text.replace('[', '').replace(']', '')
RemoveBrackets(t) == replace(replace(t, <<"[">>, <<>>), <<"]">>, <<>>)

\* re.sub(r'\s+', ' ', text)
RECURSIVE CollapseFrom(_, _)
CollapseFrom(s, i) ==
    LET white == {j \in i..Len(s) : s[j] \in Whitespace}
        w == CHOOSE j \in white : \A k \in white : j <= k
        rest == {j \in w..Len(s) : s[j] \notin Whitespace}
        nxt == IF rest = {} THEN Len(s) + 1
               ELSE CHOOSE j \in rest : \A k \in rest : j <= k
    IN  IF white = {} THEN SubSeqFrom(s, i)
        ELSE SubSeq(s, i, w - 1) \o <<" ">> \o CollapseFrom(s, nxt)

\* str.strip()
strip(s) ==
    LET keep == {j \in 1..Len(s) : s[j] \notin Whitespace}
    IN  IF keep = {} THEN <<>>
        ELSE SubSeq(s, CHOOSE j \in keep : \A k \in keep : j <= k,
                       CHOOSE j \in keep : \A k \in keep : j >= k)

CollapseWhitespace(t) == strip(CollapseFrom(t, 1))

\* the clean-up of one verse body in extract_bible_data.py
W_clean(text) == CollapseWhitespace(RemoveGlyphs(DecodeEntities(StripTags(text))))

\* the clean-up of one verse body in extract_darby.py
D_clean(text) == CollapseWhitespace(RemoveBrackets(DecodeEntities(StripTags(text))))

(***************************************************************************)
(* Verse matching.                                                         *)
(***************************************************************************)
\* the index just past the longest run of digits of s that starts at i
RECURSIVE DigitsEnd(_, _)
DigitsEnd(s, i) ==
    IF i <= Len(s) /\ s[i] \in Digits THEN DigitsEnd(s, i + 1) ELSE i

\* least index j >= from at which the lookahead
\* (?=<span class="verse"|</div>) holds, 0 when there is none
LookaheadAt(s, from) ==
    LET hits == {j \in from..Len(s) :
                    StartsWithAt(s, j, VerseOpen) \/ StartsWithAt(s, j, DivClose)}
    IN  IF hits = {} THEN 0 ELSE CHOOSE j \in hits : \A k \in hits : j <= k

NoMatch == [ok |-> FALSE, id |-> <<>>, disp |-> <<>>, body |-> <<>>, end |-> 0]

\* one attempt of  id="V(\d+)">(\d+)&#160;</span>(.*?)(?=<span class="verse"|</div>)
\* at index p of s: the groups and the index just past the match
MarkerMatchAt(s, p) ==
    LET d1 == p + 1
        q  == DigitsEnd(s, d1)
        d2 == q + 2
        r  == DigitsEnd(s, d2)
        b  == r + 6
        e  == LookaheadAt(s, b)
    IN  IF /\ StartsWithAt(s, p, <<"id=\"V">>)
           /\ q > d1
           /\ StartsWithAt(s, q, <<"\"", ">">>)
           /\ r > d2
           /\ StartsWithAt(s, r, Entity("#160") \o SpanClose)
           /\ e # 0
        THEN [ok |-> TRUE, id |-> SubSeq(s, d1, q - 1), disp |-> SubSeq(s, d2, r - 1),
              body |-> SubSeq(s, b, e - 1), end |-> e]
        ELSE NoMatch

\* the pattern of extract_bible_data.py at index p
W_match(s, p) == MarkerMatchAt(s, p)

\* the pattern of extract_darby.py at index p: the same behind
\* the literal  <span class="verse"  and a space
D_match(s, p) ==
    IF StartsWithAt(s, p, VerseOpen \o <<" ">>) THEN MarkerMatchAt(s, p + 3) ELSE NoMatch

\* re.findall(pattern, html_content, re.DOTALL) of extract_bible_data.py
RECURSIVE W_findall(_, _)
W_findall(s, p) ==
    LET j == FindFirst(s, p, <<"id=\"V">>)
        m == W_match(s, j)
    IN  IF j = 0 THEN <<>>
        ELSE IF m.ok THEN <<m>> \o W_findall(s, m.end)
        ELSE W_findall(s, j + 1)

\* re.findall(pattern, html_content, re.DOTALL) of extract_darby.py
RECURSIVE D_findall(_, _)
D_findall(s, p) ==
    LET j == FindFirst(s, p, VerseOpen)
        m == D_match(s, j)
    IN  IF j = 0 THEN <<>>
        ELSE IF m.ok THEN <<m>> \o D_findall(s, m.end)
        ELSE D_findall(s, j + 1)

\* re.sub(r'<span class="popup">.*?</span>', '', html_content, flags=re.DOTALL)
RECURSIVE RemovePopupsFrom(_, _)
RemovePopupsFrom(s, i) ==
    LET open == FindFirst(s, i, PopupOpen)
        close == FindFirst(s, open + 3, SpanClose)
    IN  IF open = 0 \/ close = 0 THEN SubSeqFrom(s, i)
        ELSE SubSeq(s, i, open - 1) \o RemovePopupsFrom(s, close + 3)

RemovePopups(s) == RemovePopupsFrom(s, 1)

\* the loop over the matches without its  if text:  test
RECURSIVE W_collect_all(_)
W_collect_all(ms) ==
    IF ms = <<>> THEN <<>>
    ELSE <<[verse_num |-> int(Head(ms).id), text |-> W_clean(Head(ms).body)]>>
             \o W_collect_all(Tail(ms))

\* the loop over the matches: clean each body, keep the non-empty ones
RECURSIVE W_collect(_)
W_collect(ms) ==
    IF ms = <<>> THEN <<>>
    ELSE LET text == W_clean(Head(ms).body)
         IN  (IF text # <<>>
              THEN <<[verse_num |-> int(Head(ms).id), text |-> text]>>
              ELSE <<>>) \o W_collect(Tail(ms))

RECURSIVE D_collect(_)
D_collect(ms) ==
    IF ms = <<>> THEN <<>>
    ELSE LET text == D_clean(Head(ms).body)
         IN  (IF text # <<>>
              THEN <<[verse_num |-> int(Head(ms).disp), text |-> text]>>
              ELSE <<>>) \o D_collect(Tail(ms))

\* extract_verses_from_html of extract_bible_data.py
W_extract_verses_from_html(html_content) ==
    W_collect(W_findall(RemovePopups(html_content), 1))

\* extract_verses_from_html of extract_darby.py (its key verse_number is
\* written verse_num here)
D_extract_verses_from_html(html_content) ==
    D_collect(D_findall(html_content, 1))

(***************************************************************************)
(* File names.  A file name is a sequence of atoms too: one atom for each  *)
(* character, and the atom ".htm" for the extension.                       *)
(***************************************************************************)
UpperSeq ==
    <<"A", "B", "C", "D", "E", "F", "G", "H", "I", "J", "K", "L", "M",
      "N", "O", "P", "Q", "R", "S", "T", "U", "V", "W", "X", "Y", "Z">>

\* the character class [A-Z0-9]
UpperOrDigit == Range(UpperSeq) \cup Digits

\* the code point that decides the order of an atom of a file name
Ord(c) ==
    IF c \in Digits THEN 48 + DigitVal[c]
    ELSE IF c = ".htm" THEN 46
    ELSE IF c = "l" THEN 108
    ELSE 64 + (CHOOSE k \in 1..26 : UpperSeq[k] = c)

\* a < b in the order of Python strings
LexLess(a, b) ==
    \/ Len(a) < Len(b) /\ SubSeq(b, 1, Len(a)) = a
    \/ \E k \in 1..Len(a) :
          /\ k <= Len(b)
          /\ SubSeq(a, 1, k - 1) = SubSeq(b, 1, k - 1)
          /\ Ord(a[k]) < Ord(b[k])

\* the listing in descending order: sorted(..., reverse=True)
RECURSIVE sorted_reverse(_)
sorted_reverse(S) ==
    IF S = {} THEN <<>>
    ELSE LET m == CHOOSE x \in S : \A y \in S \ {x} : LexLess(y, x)
         IN  <<m>> \o sorted_reverse(S \ {m})

\* sorted(...) of a set of file names
RECURSIVE sorted(_)
sorted(S) ==
    IF S = {} THEN <<>>
    ELSE LET m == CHOOSE x \in S : \A y \in S \ {x} : LexLess(x, y)
         IN  <<m>> \o sorted(S \ {m})

\* re.match(r'[A-Z0-9]+\d+\.htm', f)
W_filter(f) ==
    \E i \in 1..Len(f), n \in 2..Len(f) :
        /\ i < n
        /\ \A k \in 1..i : f[k] \in UpperOrDigit
        /\ \A k \in (i + 1)..n : f[k] \in Digits
        /\ StartsWithAt(f, n + 1, <<".htm">>)

\* re.match(r'[A-Z0-9]{3}\d+\.htm', f)
D_filter(f) ==
    /\ Len(f) >= 3
    /\ \A k \in 1..3 : f[k] \in UpperOrDigit
    /\ DigitsEnd(f, 4) > 4
    /\ StartsWithAt(f, DigitsEnd(f, 4), <<".htm">>)

None == [book_code |-> <<>>, chapter |-> -1]

\* parse_filename of extract_bible_data.py; None is (None, None)
W_parse_filename(filename) ==
    LET name_no_ext == replace(filename, <<".htm">>, <<>>)
        n == Len(name_no_ext)
        cuts == {i \in 1..(n - 1) :
                    /\ \A k \in 1..i : name_no_ext[k] \in UpperOrDigit
                    /\ \A k \in (i + 1)..n : name_no_ext[k] \in Digits}
    IN  IF cuts = {} THEN None
        ELSE LET i == CHOOSE c \in cuts : \A d \in cuts : c <= d
             IN  [book_code |-> SubSeq(name_no_ext, 1, i),
                  chapter |-> int(SubSeq(name_no_ext, i + 1, n))]

\* parse_filename of extract_darby.py; None is (None, None)
D_parse_filename(filename) ==
    IF D_filter(filename)
    THEN [book_code |-> SubSeq(filename, 1, 3),
          chapter |-> int(SubSeq(filename, 4, DigitsEnd(filename, 4) - 1))]
    ELSE None

(***************************************************************************)
(* The static tables.                                                      *)
(***************************************************************************)
W_BOOK_NAMES ==
    <<"G", "E", "N">> :> "Genesis" @@ <<"E", "X", "O">> :> "Exodus" @@
    <<"L", "E", "V">> :> "Leviticus" @@ <<"N", "U", "M">> :> "Numbers" @@
    <<"D", "E", "U">> :> "Deuteronomy" @@ <<"J", "O", "S">> :> "Joshua" @@
    <<"J", "D", "G">> :> "Judges" @@ <<"R", "U", "T">> :> "Ruth" @@
    <<"1", "S", "A">> :> "1 Samuel" @@ <<"2", "S", "A">> :> "2 Samuel" @@
    <<"1", "K", "I">> :> "1 Kings" @@ <<"2", "K", "I">> :> "2 Kings" @@
    <<"1", "C", "H">> :> "1 Chronicles" @@
    <<"2", "C", "H">> :> "2 Chronicles" @@ <<"E", "Z", "R">> :> "Ezra" @@
    <<"N", "E", "H">> :> "Nehemiah" @@ <<"E", "S", "T">> :> "Esther" @@
    <<"J", "O", "B">> :> "Job" @@ <<"P", "S", "A">> :> "Psalms" @@
    <<"P", "R", "O">> :> "Proverbs" @@ <<"E", "C", "C">> :> "Ecclesiastes" @@
    <<"S", "N", "G">> :> "Song of Solomon" @@
    <<"I", "S", "A">> :> "Isaiah" @@ <<"J", "E", "R">> :> "Jeremiah" @@
    <<"L", "A", "M">> :> "Lamentations" @@ <<"E", "Z", "K">> :> "Ezekiel" @@
    <<"D", "A", "N">> :> "Daniel" @@ <<"H", "O", "S">> :> "Hosea" @@
    <<"J", "O", "L">> :> "Joel" @@ <<"A", "M", "O">> :> "Amos" @@
    <<"O", "B", "A">> :> "Obadiah" @@ <<"J", "O", "N">> :> "Jonah" @@
    <<"M", "I", "C">> :> "Micah" @@ <<"N", "A", "M">> :> "Nahum" @@
    <<"H", "A", "B">> :> "Habakkuk" @@ <<"Z", "E", "P">> :> "Zephaniah" @@
    <<"H", "A", "G">> :> "Haggai" @@ <<"Z", "E", "C">> :> "Zechariah" @@
    <<"M", "A", "L">> :> "Malachi" @@ <<"M", "A", "T">> :> "Matthew" @@
    <<"M", "R", "K">> :> "Mark" @@ <<"L", "U", "K">> :> "Luke" @@
    <<"J", "H", "N">> :> "John" @@ <<"A", "C", "T">> :> "Acts" @@
    <<"R", "O", "M">> :> "Romans" @@ <<"1", "C", "O">> :> "1 Corinthians" @@
    <<"2", "C", "O">> :> "2 Corinthians" @@
    <<"G", "A", "L">> :> "Galatians" @@ <<"E", "P", "H">> :> "Ephesians" @@
    <<"P", "H", "P">> :> "Philippians" @@
    <<"C", "O", "L">> :> "Colossians" @@
    <<"1", "T", "H">> :> "1 Thessalonians" @@
    <<"2", "T", "H">> :> "2 Thessalonians" @@
    <<"1", "T", "I">> :> "1 Timothy" @@ <<"2", "T", "I">> :> "2 Timothy" @@
    <<"T", "I", "T">> :> "Titus" @@ <<"P", "H", "M">> :> "Philemon" @@
    <<"H", "E", "B">> :> "Hebrews" @@ <<"J", "A", "S">> :> "James" @@
    <<"1", "P", "E">> :> "1 Peter" @@ <<"2", "P", "E">> :> "2 Peter" @@
    <<"1", "J", "N">> :> "1 John" @@ <<"2", "J", "N">> :> "2 John" @@
    <<"3", "J", "N">> :> "3 John" @@ <<"J", "U", "D">> :> "Jude" @@
    <<"R", "E", "V">> :> "Revelation"

OLD_TESTAMENT_BOOKS ==
    <<
      "Genesis", "Exodus", "Leviticus", "Numbers", "Deuteronomy",
      "Joshua", "Judges", "Ruth", "1 Samuel", "2 Samuel", "1 Kings",
      "2 Kings", "1 Chronicles", "2 Chronicles", "Ezra", "Nehemiah",
      "Esther", "Job", "Psalms", "Proverbs", "Ecclesiastes",
      "Song of Solomon", "Isaiah", "Jeremiah", "Lamentations",
      "Ezekiel", "Daniel", "Hosea", "Joel", "Amos", "Obadiah", "Jonah",
      "Micah", "Nahum", "Habakkuk", "Zephaniah", "Haggai", "Zechariah",
      "Malachi"
    >>

D_BOOK_NAMES ==
    <<"G", "E", "N">> :> "Genesis" @@ <<"E", "X", "O">> :> "Exodus" @@
    <<"L", "E", "V">> :> "Leviticus" @@ <<"N", "U", "M">> :> "Numbers" @@
    <<"D", "E", "U">> :> "Deuteronomy" @@ <<"J", "O", "S">> :> "Joshua" @@
    <<"J", "D", "G">> :> "Judges" @@ <<"R", "U", "T">> :> "Ruth" @@
    <<"1", "S", "A">> :> "1 Samuel" @@ <<"2", "S", "A">> :> "2 Samuel" @@
    <<"1", "K", "I">> :> "1 Kings" @@ <<"2", "K", "I">> :> "2 Kings" @@
    <<"1", "C", "H">> :> "1 Chronicles" @@
    <<"2", "C", "H">> :> "2 Chronicles" @@ <<"E", "Z", "R">> :> "Ezra" @@
    <<"N", "E", "H">> :> "Nehemiah" @@ <<"E", "S", "T">> :> "Esther" @@
    <<"J", "O", "B">> :> "Job" @@ <<"P", "S", "A">> :> "Psalms" @@
    <<"P", "R", "O">> :> "Proverbs" @@ <<"E", "C", "C">> :> "Ecclesiastes" @@
    <<"S", "N", "G">> :> "Song of Solomon" @@
    <<"I", "S", "A">> :> "Isaiah" @@ <<"J", "E", "R">> :> "Jeremiah" @@
    <<"L", "A", "M">> :> "Lamentations" @@ <<"E", "Z", "K">> :> "Ezekiel" @@
    <<"D", "A", "N">> :> "Daniel" @@ <<"H", "O", "S">> :> "Hosea" @@
    <<"J", "O", "L">> :> "Joel" @@ <<"A", "M", "O">> :> "Amos" @@
    <<"O", "B", "A">> :> "Obadiah" @@ <<"J", "O", "N">> :> "Jonah" @@
    <<"M", "I", "C">> :> "Micah" @@ <<"N", "A", "M">> :> "Nahum" @@
    <<"H", "A", "B">> :> "Habakkuk" @@ <<"Z", "E", "P">> :> "Zephaniah" @@
    <<"H", "A", "G">> :> "Haggai" @@ <<"Z", "E", "C">> :> "Zechariah" @@
    <<"M", "A", "L">> :> "Malachi" @@ <<"M", "A", "T">> :> "Matthew" @@
    <<"M", "R", "K">> :> "Mark" @@ <<"L", "U", "K">> :> "Luke" @@
    <<"J", "H", "N">> :> "John" @@ <<"A", "C", "T">> :> "Acts" @@
    <<"R", "O", "M">> :> "Romans" @@ <<"1", "C", "O">> :> "1 Corinthians" @@
    <<"2", "C", "O">> :> "2 Corinthians" @@
    <<"G", "A", "L">> :> "Galatians" @@ <<"E", "P", "H">> :> "Ephesians" @@
    <<"P", "H", "P">> :> "Philippians" @@
    <<"C", "O", "L">> :> "Colossians" @@
    <<"1", "T", "H">> :> "1 Thessalonians" @@
    <<"2", "T", "H">> :> "2 Thessalonians" @@
    <<"1", "T", "I">> :> "1 Timothy" @@ <<"2", "T", "I">> :> "2 Timothy" @@
    <<"T", "I", "T">> :> "Titus" @@ <<"P", "H", "M">> :> "Philemon" @@
    <<"H", "E", "B">> :> "Hebrews" @@ <<"J", "A", "S">> :> "James" @@
    <<"1", "P", "E">> :> "1 Peter" @@ <<"2", "P", "E">> :> "2 Peter" @@
    <<"1", "J", "N">> :> "1 John" @@ <<"2", "J", "N">> :> "2 John" @@
    <<"3", "J", "N">> :> "3 John" @@ <<"J", "U", "D">> :> "Jude" @@
    <<"R", "E", "V">> :> "Revelation"

BOOK_ORDER ==
    <<
      "Genesis", "Exodus", "Leviticus", "Numbers", "Deuteronomy",
      "Joshua", "Judges", "Ruth", "1 Samuel", "2 Samuel", "1 Kings",
      "2 Kings", "1 Chronicles", "2 Chronicles", "Ezra", "Nehemiah",
      "Esther", "Job", "Psalms", "Proverbs", "Ecclesiastes",
      "Song of Solomon", "Isaiah", "Jeremiah", "Lamentations",
      "Ezekiel", "Daniel", "Hosea", "Joel", "Amos", "Obadiah", "Jonah",
      "Micah", "Nahum", "Habakkuk", "Zephaniah", "Haggai", "Zechariah",
      "Malachi", "Matthew", "Mark", "Luke", "John", "Acts", "Romans",
      "1 Corinthians", "2 Corinthians", "Galatians", "Ephesians",
      "Philippians", "Colossians", "1 Thessalonians", "2 Thessalonians",
      "1 Timothy", "2 Timothy", "Titus", "Philemon", "Hebrews", "James",
      "1 Peter", "2 Peter", "1 John", "2 John", "3 John", "Jude",
      "Revelation"
    >>

\* BOOK_ORDER.index(book_name)
BookIndex(book_name) == (CHOOSE k \in 1..Len(BOOK_ORDER) : BOOK_ORDER[k] = book_name) - 1

\* get_testament of extract_darby.py
get_testament(book_name) ==
    IF book_name \in Range(SubSeq(BOOK_ORDER, 1, 39)) THEN "Old" ELSE "New"

(***************************************************************************)
(* Inputs.  A chapter fragment is built from verse units: a marker         *)
(*   <span class="verse" id="V<id>"><disp>&#160;</span>                    *)
(* followed by a body; the fragment may or may not end with </div>.        *)
(***************************************************************************)
Marker(id, disp) ==
    VerseOpen \o <<" ", "id=\"V">> \o id \o <<"\"", ">">> \o disp
        \o Entity("#160") \o SpanClose

\* In the <i>beginning</i>.
BodyBeginning ==
    <<"In", " ", "the", " ", "<", "i", ">", "beginning", "<", "/i", ">", ".">>

\* And the earth...
BodyEarth == <<"And", " ", "the", " ", "earth", "...">>

\* a line feed only
BodyBlank == <<"\n">>

\* <span class="popup">note</span> and a line feed
BodyPopupOnly == PopupOpen \o <<"note">> \o SpanClose \o <<"\n">>

\* God<span class="popup">note <span>in</span> tail</span>said
BodyNestedPopup ==
    <<"God">> \o PopupOpen \o <<"note", " ", "<", "span", ">", "in">> \o SpanClose
        \o <<" ", "tail">> \o SpanClose \o <<"said">>

\* a &lt; b > c
BodyEntity == <<"a", " ">> \o Entity("lt") \o <<" ", "b", " ", ">", " ", "c">>

\* light</div> <div>day  : the verse runs on into the next block
BodyTwoBlocks == <<"light">> \o DivClose \o <<" ", "<", "div", ">", "day">>

\* [is] good, with a dagger
BodyBracket == <<"[", "is", "]", " ", "good", "U+2020">>

Bodies ==
    {BodyBeginning, BodyEarth, BodyBlank, BodyPopupOnly, BodyNestedPopup,
     BodyEntity, BodyTwoBlocks, BodyBracket}

\* the words that occur inside popup spans only
PopupWords == {"note", "in", "tail"}

\* the id and the displayed number of the markers
MarkerPairs ==
    {<< <<"1">>, <<"1">> >>, << <<"2">>, <<"2">> >>, << <<"1", "0">>, <<"0">> >>}

Units ==
    {[id |-> m[1], disp |-> m[2], body |-> b] : m \in MarkerPairs, b \in Bodies}

Unit(id, body) == [id |-> id, disp |-> id, body |-> body]

RECURSIVE UnitsText(_)
UnitsText(us) ==
    IF us = <<>> THEN <<>>
    ELSE Marker(Head(us).id, Head(us).disp) \o Head(us).body \o UnitsText(Tail(us))

Fragment(us, isClosed) == UnitsText(us) \o (IF isClosed THEN DivClose ELSE <<>>)

\* verse bodies for the clean-up on its own
CleanAlphabet == {"&", "amp", "quot", ";", "[", "U+2020", " ", "<", ">", "a"}

Escaped(name) == Entity("amp") \o <<name, ";">>

CleanInputs == SeqsUpTo(CleanAlphabet, MaxLen) \cup {Escaped(e) : e \in EntityNames}

\* the directory of the batch drivers
FileNames ==
    {<<"G", "E", "N", "0", "1", ".htm">>,
     <<"G", "E", "N", "0", "0", ".htm">>,
     <<"J", "H", "N", "0", "3", ".htm">>,
     <<"1", "C", "H", "1", "0", ".htm">>,
     <<"X", "Y", "Z", "0", "1", ".htm">>,
     <<"G", "E", "N", "0", "1", ".htm", "l">>,
     <<"1", "2", ".htm">>,
     <<"R", "E", "A", "D", "M", "E">>}

\* the chapters of the files: verses in order, verses out of order with one
\* number twice, a verse numbered 0, and a page with no verse
ContentUnits ==
    {<<Unit(<<"1">>, BodyBeginning), Unit(<<"2">>, BodyEarth)>>,
     <<Unit(<<"2">>, BodyEarth), Unit(<<"1">>, BodyBracket), Unit(<<"2">>, BodyEarth)>>,
     <<Unit(<<"0">>, BodyEntity)>>,
     <<>>}

FileContents == {Fragment(us, TRUE) : us \in ContentUnits}

\* a file is readable with one of the chapters, or cannot be read at all
FileStates ==
    {[content |-> c, readable |-> TRUE] : c \in FileContents}
        \cup {[content |-> Fragment(<<>>, TRUE), readable |-> FALSE]}

Directories ==
    UNION {[S -> FileStates] :
              S \in {T \in SUBSET FileNames : Cardinality(T) <= MaxFiles}}

(***************************************************************************)
(* State.                                                                  *)
(***************************************************************************)
VARIABLES
    pc,            \* where the script is
    units,         \* the verse units of the fragment given to the extractor
    closed,        \* whether that fragment ends with </div>
    html_content,  \* the argument of extract_verses_from_html
    verses,        \* its result
    raw,           \* a verse body as found
    text,          \* the body after the clean-up passes applied so far
    passes,        \* how many passes were applied
    dir,           \* the source directory: file name -> content, readable
    html_files,    \* main: the sorted list of chapter files
    idx,           \* main: the position of the for loop in html_files
    all_verses,    \* main: the accumulated records
    output         \* the JSON array written, <<"none">> before

vars ==
    <<pc, units, closed, html_content, verses, raw, text, passes,
      dir, html_files, idx, all_verses, output>>

extractVars == <<units, closed, html_content, verses>>
cleanVars == <<raw, text, passes>>
mainVars == <<dir, html_files, idx, all_verses, output>>

NotWritten == <<"none">>

IdleExtract ==
    units = <<>> /\ closed = FALSE /\ html_content = <<>> /\ verses = <<>>
IdleClean == raw = <<>> /\ text = <<>> /\ passes = 0
IdleMain ==
    /\ dir = << >> /\ html_files = <<>> /\ idx = 0
    /\ all_verses = <<>> /\ output = NotWritten

(***************************************************************************)
(* The extractor on its own.                                               *)
(***************************************************************************)
InitExtract ==
    /\ pc \in {"W_extract", "D_extract"}
    /\ units \in SeqsUpTo(Units, MaxUnits)
    /\ closed \in BOOLEAN
    /\ html_content = Fragment(units, closed)
    /\ verses = <<>>
    /\ IdleClean /\ IdleMain

W_Extract ==
    /\ pc = "W_extract"
    /\ verses' = W_extract_verses_from_html(html_content)
    /\ pc' = "W_extracted"
    /\ UNCHANGED <<units, closed, html_content, cleanVars, mainVars>>

D_Extract ==
    /\ pc = "D_extract"
    /\ verses' = D_extract_verses_from_html(html_content)
    /\ pc' = "D_extracted"
    /\ UNCHANGED <<units, closed, html_content, cleanVars, mainVars>>

NextExtract == W_Extract \/ D_Extract

SpecExtract == InitExtract /\ [][NextExtract]_vars

(***************************************************************************)
(* The clean-up of a verse body on its own, applied once and again.        *)
(***************************************************************************)
InitClean ==
    /\ pc \in {"W_clean", "D_clean"}
    /\ raw \in CleanInputs
    /\ text = raw
    /\ passes = 0
    /\ IdleExtract /\ IdleMain

W_CleanPass ==
    /\ pc = "W_clean"
    /\ passes < 2
    /\ text' = W_clean(text)
    /\ passes' = passes + 1
    /\ UNCHANGED <<pc, raw, extractVars, mainVars>>

D_CleanPass ==
    /\ pc = "D_clean"
    /\ passes < 2
    /\ text' = D_clean(text)
    /\ passes' = passes + 1
    /\ UNCHANGED <<pc, raw, extractVars, mainVars>>

NextClean == W_CleanPass \/ D_CleanPass

SpecClean == InitClean /\ [][NextClean]_vars

(***************************************************************************)
(* The batch drivers.  A file that cannot be read (open or read raises)    *)
(* has readable = FALSE.  pc = "W_crashed" or "D_crashed" is the script    *)
(* ended by an exception that left main.                                   *)
(***************************************************************************)
\* one record of the output array
VerseObj(book_name, chapter, verse_num, txt, translation, testament, book_number) ==
    [Book |-> book_name, Chapter |-> chapter, Verse |-> verse_num, Text |-> txt,
     Translation |-> translation,
     Reference |-> <<book_name, " ", chapter, ":", verse_num>>,
     FullText |-> <<book_name, " ", chapter, ":", verse_num, ": ", txt>>,
     Testament |-> testament, BookNumber |-> book_number]

\* the records main of extract_bible_data.py builds from one file's verses
W_records(book_name, chapter, vs) ==
    [k \in 1..Len(vs) |->
        VerseObj(book_name, chapter, vs[k].verse_num, vs[k].text, "WEB",
                 IF book_name \in Range(OLD_TESTAMENT_BOOKS) THEN "Old" ELSE "New", 0)]

\* the records main of extract_darby.py builds from one file's verses
D_records(book_name, chapter, vs) ==
    [k \in 1..Len(vs) |->
        VerseObj(book_name, chapter, vs[k].verse_num, vs[k].text, "Darby",
                 get_testament(book_name),
                 IF book_name \in Range(BOOK_ORDER) THEN BookIndex(book_name) ELSE 0)]

\* the head of the loop without its  book_code not in BOOK_NAMES  test
W_skip_unparsed_only(filename) == W_parse_filename(filename) = None

\* the two skip tests at the head of the loop of extract_bible_data.py
W_skip(filename) ==
    \/ W_parse_filename(filename) = None
    \/ W_parse_filename(filename).book_code \notin DOMAIN W_BOOK_NAMES

\* the skip test at the head of the loop of extract_darby.py
D_skip(filename) ==
    \/ D_parse_filename(filename) = None
    \/ D_parse_filename(filename).book_code \notin DOMAIN D_BOOK_NAMES

InitMain ==
    /\ pc \in {"W_start", "D_start"}
    /\ dir \in Directories
    /\ html_files = <<>>
    /\ idx = 0
    /\ all_verses = <<>>
    /\ output = NotWritten
    /\ IdleExtract /\ IdleClean

\* extract_bible_data.py: all_verses = [] and the sorted listing
W_ListFiles ==
    /\ pc = "W_start"
    /\ html_files' = sorted({f \in DOMAIN dir : W_filter(f)})
    /\ all_verses' = <<>>
    /\ pc' = "W_test"
    /\ UNCHANGED <<dir, idx, output, extractVars, cleanVars>>

\* extract_bible_data.py: the trial extraction of the first file
W_TestFirstFile ==
    /\ pc = "W_test"
    /\ pc' = IF html_files # <<>> /\ ~dir[html_files[1]].readable
             THEN "W_crashed" ELSE "W_loop"
    /\ idx' = 1
    /\ UNCHANGED <<dir, html_files, all_verses, output, extractVars, cleanVars>>

\* extract_bible_data.py: one pass of the for loop
W_ProcessFile ==
    /\ pc = "W_loop"
    /\ idx <= Len(html_files)
    /\ LET filename == html_files[idx]
           parsed == W_parse_filename(filename)
           found == W_extract_verses_from_html(dir[filename].content)
       IN  IF W_skip(filename)
           THEN /\ idx' = idx + 1
                /\ UNCHANGED <<pc, all_verses>>
           ELSE IF parsed.book_code \notin DOMAIN W_BOOK_NAMES
                   \/ ~dir[filename].readable
           THEN /\ pc' = "W_crashed"
                /\ UNCHANGED <<idx, all_verses>>
           ELSE /\ all_verses' = all_verses
                       \o W_records(W_BOOK_NAMES[parsed.book_code], parsed.chapter, found)
                /\ idx' = idx + 1
                /\ UNCHANGED pc
    /\ UNCHANGED <<dir, html_files, output, extractVars, cleanVars>>

\* extract_bible_data.py: the JSON file is written
W_WriteOutput ==
    /\ pc = "W_loop"
    /\ idx > Len(html_files)
    /\ output' = all_verses
    /\ pc' = "W_done"
    /\ UNCHANGED <<dir, html_files, idx, all_verses, extractVars, cleanVars>>

\* extract_darby.py: the sorted listing
D_ListFiles ==
    /\ pc = "D_start"
    /\ html_files' = sorted({f \in DOMAIN dir : D_filter(f)})
    /\ pc' = "D_test"
    /\ UNCHANGED <<dir, idx, all_verses, output, extractVars, cleanVars>>

\* extract_darby.py: the trial extraction of the first file, then all_verses = []
D_TestFirstFile ==
    /\ pc = "D_test"
    /\ pc' = IF html_files # <<>> /\ ~dir[html_files[1]].readable
             THEN "D_crashed" ELSE "D_loop"
    /\ all_verses' = <<>>
    /\ idx' = 1
    /\ UNCHANGED <<dir, html_files, output, extractVars, cleanVars>>

\* extract_darby.py: one pass of the for loop
D_ProcessFile ==
    /\ pc = "D_loop"
    /\ idx <= Len(html_files)
    /\ LET html_file == html_files[idx]
           parsed == D_parse_filename(html_file)
           found == D_extract_verses_from_html(dir[html_file].content)
       IN  IF D_skip(html_file)
           THEN /\ idx' = idx + 1
                /\ UNCHANGED <<pc, all_verses>>
           ELSE IF parsed.book_code \notin DOMAIN D_BOOK_NAMES
           THEN /\ pc' = "D_crashed"
                /\ UNCHANGED <<idx, all_verses>>
           ELSE IF ~dir[html_file].readable
           THEN /\ idx' = idx + 1
                /\ UNCHANGED <<pc, all_verses>>
           ELSE /\ all_verses' = all_verses
                       \o D_records(D_BOOK_NAMES[parsed.book_code], parsed.chapter, found)
                /\ idx' = idx + 1
                /\ UNCHANGED pc
    /\ UNCHANGED <<dir, html_files, output, extractVars, cleanVars>>

\* extract_darby.py: the JSON file is written
D_WriteOutput ==
    /\ pc = "D_loop"
    /\ idx > Len(html_files)
    /\ output' = all_verses
    /\ pc' = "D_done"
    /\ UNCHANGED <<dir, html_files, idx, all_verses, extractVars, cleanVars>>

Next ==
    \/ W_ListFiles \/ W_TestFirstFile \/ W_ProcessFile \/ W_WriteOutput
    \/ D_ListFiles \/ D_TestFirstFile \/ D_ProcessFile \/ D_WriteOutput

Init == InitMain

Spec == Init /\ [][Next]_vars

(***************************************************************************)
(* Properties of the extractor (SpecExtract).                              *)
(***************************************************************************)
Extracted == pc \in {"W_extracted", "D_extracted"}

HasAngle(t) == "<" \in Range(t) \/ ">" \in Range(t)

HasEntity(t, names) == \E e \in names : FindFirst(t, 1, Entity(e)) # 0

\* the verse bodies the extractor cleaned for the fragment at hand
MatchedBodies ==
    IF pc = "W_extracted"
    THEN {m.body : m \in Range(W_findall(RemovePopups(html_content), 1))}
    ELSE {m.body : m \in Range(D_findall(html_content, 1))}

CleanOf(body) == IF pc = "W_extracted" THEN W_clean(body) ELSE D_clean(body)

\* C2 as stated: every returned text is non-empty and holds neither '<'
\* nor '>'.
C2_NoAngleBrackets ==
    Extracted =>
        \A k \in 1..Len(verses) :
            verses[k].text # <<>> /\ ~HasAngle(verses[k].text)

\* C2 as amended: every returned text is non-empty, and a '<' or '>' occurs
\* in it only when the body it was cleaned from, once its tags are removed,
\* still holds an &lt; or &gt; entity or an angle bracket that is part of no
\* complete tag.
C2_AnglesOnlyFromEntitiesOrStrayBrackets ==
    Extracted =>
        \A k \in 1..Len(verses) :
            /\ verses[k].text # <<>>
            /\ HasAngle(verses[k].text) =>
                   \E b \in MatchedBodies :
                       /\ CleanOf(b) = verses[k].text
                       /\ \/ HasAngle(StripTags(b))
                          \/ HasEntity(StripTags(b), {"lt", "gt"})

\* a text with an angle bracket was returned, next to a verse that was
\* dropped because its body cleaned to nothing
C2_Witness ==
    /\ Extracted
    /\ \E k \in 1..Len(verses) : HasAngle(verses[k].text)
    /\ \E b \in MatchedBodies : CleanOf(b) = <<>>

\* C3: in extract_bible_data.py no word of a popup span, nested spans
\* included, reaches the text of a returned verse.
C3_NoPopupText ==
    pc = "W_extracted" =>
        \A k \in 1..Len(verses) : Range(verses[k].text) \cap PopupWords = {}

\* the fragment of the scenario: V1 In the <i>beginning</i>. V2 And the
\* earth... and the </div> that ends the block
ScenarioFragment ==
    Fragment(<<Unit(<<"1">>, BodyBeginning), Unit(<<"2">>, BodyEarth)>>, TRUE)

\* C5 as stated: the scenario yields verse 1 "In the beginning." and verse 2
\* "And the earth...".
C5_ScenarioAsStated ==
    (Extracted /\ html_content = ScenarioFragment) =>
        verses = <<[verse_num |-> 1,
                    text |-> <<"In", " ", "the", " ", "beginning", ".">>],
                   [verse_num |-> 2, text |-> BodyEarth]>>

\* C5 as amended: the scenario, its block closed by </div>, yields verse 1
\* "In the beginning ." (each tag became a space, so one space stands
\* before the full stop) and verse 2 "And the earth...".
C5_ScenarioWithSpace ==
    (Extracted /\ html_content = ScenarioFragment) =>
        verses = <<[verse_num |-> 1,
                    text |-> <<"In", " ", "the", " ", "beginning", " ", ".">>],
                   [verse_num |-> 2, text |-> BodyEarth]>>

\* the extractor has run on the scenario
C5_Witness == Extracted /\ html_content = ScenarioFragment /\ Len(verses) = 2

\* the body of a unit as the claim reads it: up to the end of its block
BlockOf(body) ==
    LET e == FindFirst(body, 1, DivClose)
    IN  IF e = 0 THEN body ELSE SubSeq(body, 1, e - 1)

\* the entries the claim expects of the units, in order
RECURSIVE ExpectedEntries(_)
ExpectedEntries(us) ==
    IF us = <<>> THEN <<>>
    ELSE LET u == Head(us)
             t == IF pc = "W_extracted" THEN W_clean(RemovePopups(BlockOf(u.body)))
                  ELSE D_clean(BlockOf(u.body))
             n == IF pc = "W_extracted" THEN int(u.id) ELSE int(u.disp)
         IN  (IF t # <<>> THEN <<[verse_num |-> n, text |-> t]>> ELSE <<>>)
                 \o ExpectedEntries(Tail(us))

\* C9: every verse marker whose body cleans to a non-empty text yields one
\* entry, the last marker of the fragment included, and no other marker does.
C9_EveryMarkerYieldsEntry == Extracted => verses = ExpectedEntries(units)

(***************************************************************************)
(* Properties of the clean-up (SpecClean).                                 *)
(***************************************************************************)
NoTag(t) == \A p \in 1..Len(t) : ~TagAt(t, p)

NoEntity(t) == ~HasEntity(t, EntityNames)

\* the text with the characters removed that its edition removes
Unmarked(t) == IF pc = "W_clean" THEN RemoveGlyphs(t) ELSE RemoveBrackets(t)

\* C6 as stated: on a text with no tag and no entity of the decoded set,
\* footnote glyphs and square brackets allowed, a second clean-up changes
\* nothing.
C6_Idempotent ==
    [][(passes = 1 /\ NoTag(raw) /\ NoEntity(raw)) => text' = text]_vars

\* C6 as amended: on a text with no tag and no entity of the decoded set,
\* and in which taking out the glyphs (WEB) or the square brackets (Darby)
\* puts no such entity together, a second clean-up changes nothing.
C6_IdempotentUnlessEntityAssembled ==
    [][(passes = 1 /\ NoTag(raw) /\ NoEntity(raw) /\ NoEntity(Unmarked(raw)))
          => text' = text]_vars

\* a text with a glyph or a bracket and white space to collapse was cleaned
\* twice, and the first clean-up changed it
C6_Witness ==
    /\ passes = 2
    /\ NoTag(raw) /\ NoEntity(raw) /\ NoEntity(Unmarked(raw))
    /\ Unmarked(raw) # raw
    /\ " " \in Range(raw)
    /\ text # raw
    /\ text # <<>>

\* C10: an escaped entity &amp;E; cleans to the characters &E; for every
\* entity name E of the decoded set.
C10_SinglePassDecoding ==
    \A e \in EntityNames : (passes = 1 /\ raw = Escaped(e)) => text = Entity(e)

(***************************************************************************)
(* Properties of the batch drivers (Spec).                                 *)
(***************************************************************************)
Done == pc \in {"W_done", "D_done"}
Crashed == pc \in {"W_crashed", "D_crashed"}
IsWeb == pc \in {"W_start", "W_test", "W_loop", "W_done", "W_crashed"}

Least(S) == CHOOSE x \in S : \A y \in S \ {x} : LexLess(x, y)

\* the files with the expected name shape and a recognised book code
Recognised ==
    IF IsWeb
    THEN {f \in DOMAIN dir :
             /\ W_filter(f)
             /\ W_parse_filename(f) # None
             /\ W_parse_filename(f).book_code \in DOMAIN W_BOOK_NAMES}
    ELSE {f \in DOMAIN dir :
             /\ D_filter(f)
             /\ D_parse_filename(f) # None
             /\ D_parse_filename(f).book_code \in DOMAIN D_BOOK_NAMES}

\* the listed files whose name parses to a code that is not in the table
UnknownCode ==
    IF IsWeb
    THEN {f \in DOMAIN dir :
             /\ W_filter(f)
             /\ W_parse_filename(f) # None
             /\ W_parse_filename(f).book_code \notin DOMAIN W_BOOK_NAMES}
    ELSE {f \in DOMAIN dir :
             /\ D_filter(f)
             /\ D_parse_filename(f) # None
             /\ D_parse_filename(f).book_code \notin DOMAIN D_BOOK_NAMES}

Readable == {f \in DOMAIN dir : dir[f].readable}

\* the records of one file
FileRecords(f) ==
    IF IsWeb
    THEN W_records(W_BOOK_NAMES[W_parse_filename(f).book_code],
                   W_parse_filename(f).chapter,
                   W_extract_verses_from_html(dir[f].content))
    ELSE D_records(D_BOOK_NAMES[D_parse_filename(f).book_code],
                   D_parse_filename(f).chapter,
                   D_extract_verses_from_html(dir[f].content))

\* the records of a set of files, file after file in ascending name order
RECURSIVE RecordsInNameOrder(_)
RecordsInNameOrder(S) ==
    IF S = {} THEN <<>>
    ELSE FileRecords(Least(S)) \o RecordsInNameOrder(S \ {Least(S)})

\* the verse numbers of the markers of a file, in the order of the document
MarkerOrder(f) ==
    LET us == CHOOSE u \in ContentUnits : Fragment(u, TRUE) = dir[f].content
    IN  [k \in 1..Len(us) |-> int(us[k].id)]

RECURSIVE MarkersInNameOrder(_)
MarkersInNameOrder(S) ==
    IF S = {} THEN <<>>
    ELSE MarkerOrder(Least(S)) \o MarkersInNameOrder(S \ {Least(S)})

\* C1: a file that cannot be read costs its own records only: main never
\* ends by an exception, and the array it writes holds the records of every
\* readable file with a recognised book code.
C1_ReadFailureContained ==
    /\ ~Crashed
    /\ Done => output = RecordsInNameOrder(Recognised \cap Readable)

\* C4: every record has Verse >= 1 and Chapter >= 1.
C4_PositiveVerseAndChapter ==
    \A k \in 1..Len(all_verses) :
        all_verses[k].Verse >= 1 /\ all_verses[k].Chapter >= 1

\* C7: the pass of the loop over a file whose code is not in the table of 66
\* adds no record, raises nothing and moves on to the next file; every
\* record carries one of the 66 names of the table; and when every file can
\* be read, no exception leaves main, whatever the codes of the file names.
C7_UnknownCodeSkipped ==
    /\ [](Readable = DOMAIN dir => ~Crashed)
    /\ [](/\ Cardinality({W_BOOK_NAMES[c] : c \in DOMAIN W_BOOK_NAMES}) = 66
          /\ \A k \in 1..Len(all_verses) :
                all_verses[k].Book \in {W_BOOK_NAMES[c] : c \in DOMAIN W_BOOK_NAMES})
    /\ [][(/\ pc \in {"W_loop", "D_loop"}
           /\ idx <= Len(html_files)
           /\ html_files[idx] \in UnknownCode)
             => (all_verses' = all_verses /\ pc' = pc /\ idx' = idx + 1)]_vars

\* main went past a file with an unknown code and wrote the records of
\* another file
C7_Witness ==
    /\ Done
    /\ UnknownCode # {}
    /\ output # <<>>

\* C8: the accumulated sequence only grows at its end; the array written is
\* the records of the processed files, file after file in ascending name
\* order, the verses of a file in the order of its markers.
C8_AppendedInFileAndMarkerOrder ==
    /\ [][IsPrefix(all_verses, all_verses')]_vars
    /\ [](Done =>
            /\ output = RecordsInNameOrder(Recognised \cap Readable)
            /\ [k \in 1..Len(output) |-> output[k].Verse]
                   = MarkersInNameOrder(Recognised \cap Readable))

\* the array written holds the records of two files, and somewhere a verse
\* follows one of the same chapter with a greater number
C8_Witness ==
    /\ Done
    /\ \E j, k \in 1..Len(output) : output[j].Book # output[k].Book
    /\ \E k \in 1..(Len(output) - 1) :
          /\ output[k].Book = output[k + 1].Book
          /\ output[k].Chapter = output[k + 1].Chapter
          /\ output[k].Verse > output[k + 1].Verse

=============================================================================
